---- MODULE Spec2Model ----
(***************************************************************************)
(* The blackjack front end of static/script.js as a state machine.         *)
(*                                                                         *)
(* State: the contents of the DOM elements the script reads and writes     *)
(* (dom), the global selectedAgent, the requests in flight per endpoint    *)
(* (pending), the locals of the last displayGameTable run (playerCards,    *)
(* dealerCards) and a record of the last handler step (last): which        *)
(* handler ran, the response it was given, whether its rendering threw and *)
(* the text it passed to alert ("" for none).                              *)
(*                                                                         *)
(* JavaScript values that may be null or undefined are tagged records:     *)
(* [t |-> "null"], [t |-> "undefined"], [t |-> "number", v |-> n],         *)
(* [t |-> "array", items |-> s], [t |-> "object", ...].                    *)
(* Emoji are written as ASCII names ("JOKER" is the placeholder card).     *)
(***************************************************************************)
EXTENDS Integers, Sequences, FiniteSets, TLC

VARIABLES dom, selectedAgent, pending, playerCards, dealerCards, last

vars == <<dom, selectedAgent, pending, playerCards, dealerCards, last>>

(***************************************************************************)
(* Bounds of the model.                                                    *)
(***************************************************************************)
MaxTraceLen == 2     \* longest trace in a play-hand response
MaxPending == 2      \* cap on requests in flight per control
MaxInputLen == 2     \* longest text typed in the hands input
MaxHands == 3        \* largest hands count in a tournament response
MaxAgents == 3       \* longest agent catalog
NumTabs == 4         \* number of tabs of the page

(***************************************************************************)
(* JavaScript values.                                                      *)
(***************************************************************************)
null == [t |-> "null"]
undefined == [t |-> "undefined"]
Num(n) == [t |-> "number", v |-> n]
Arr(s) == [t |-> "array", items |-> s]

NaN == [t |-> "NaN"]

\* ToBoolean: 0, NaN, null and undefined are falsy.
Truthy(x) == IF x.t = "number" THEN x.v # 0 ELSE x.t \in {"array", "object"}

\* const cardEmojis = {1: ..., ..., 10: ...}; a lookup of any other key is undefined.
cardEmojis == <<"A", "2", "3", "4", "5", "6", "7", "8", "9", "10">>

\* cardEmojis[card] || fallback
EmojiOr(card, fallback) ==
    IF card.t = "number" /\ card.v \in DOMAIN cardEmojis
    THEN cardEmojis[card.v] ELSE fallback

(***************************************************************************)
(* The hand pane: displayGameTable, displayResult, displayTrace,           *)
(* displayHand.  Each takes the DOM and returns the DOM it leaves behind    *)
(* and whether it threw (a TypeError on a property of undefined).          *)
(***************************************************************************)

\* The forEach of displayGameTable: one pass over the steps, pushing cards.
RECURSIVE ExtractCards(_, _, _)
ExtractCards(items, i, acc) ==
    IF i > Len(items) THEN acc
    ELSE LET step == items[i] IN
         ExtractCards(items, i + 1,
            IF step.card # null
            THEN IF step.actor = "PLAYER"
                 THEN [acc EXCEPT !.playerCards = Append(@, step.card)]
                 ELSE IF step.actor = "SYSTEM" \/ step.actor = "DEALER"
                      THEN [acc EXCEPT !.dealerCards = Append(@, step.card)]
                      ELSE acc
            ELSE acc)

\* One div.card per card: cardEmojis[card] || JOKER.
RenderCards(cards) == [i \in 1..Len(cards) |-> EmojiOr(cards[i], "JOKER")]

displayGameTable(d, summary, steps) ==
    LET cleared == [d EXCEPT !["player-cards"] = <<>>, !["dealer-cards"] = <<>>]
        none == [playerCards |-> <<>>, dealerCards |-> <<>>]
    IN  IF steps.t # "array"
        THEN \* steps.forEach of undefined throws after the clearing
             [dom |-> cleared, thrown |-> TRUE, cards |-> none]
        ELSE
        LET cards == ExtractCards(steps.items, 1, none)
            dealt == [cleared EXCEPT
                        !["player-cards"] = RenderCards(cards.playerCards),
                        !["dealer-cards"] = RenderCards(cards.dealerCards)]
        IN  IF summary.t # "object"
            THEN \* summary.player_total of undefined throws after the cards
                 [dom |-> dealt, thrown |-> TRUE, cards |-> cards]
            ELSE [dom |-> [dealt EXCEPT
                        !["player-total"] = [html |-> "Total", total |-> summary.player_total],
                        !["dealer-total"] = [html |-> "Total", total |-> summary.dealer_total],
                        !["action-indicator"] = [html |-> "Hand Complete"],
                        !["agent-info"] = [html |-> "Agent", agent |-> summary.agent,
                                           upcard |-> EmojiOr(summary.dealer_upcard, "?")]],
                  thrown |-> FALSE, cards |-> cards]

\* ResultOf with the bust flags tested before the payoff.
ResultOfBustFirst(payoff, summary) ==
    IF summary.player_bust
    THEN [resultClass |-> "loss", resultText |-> "Player Busts - Dealer Wins!"]
    ELSE IF payoff = 1
         THEN [resultClass |-> "win", resultText |-> "Player Wins!"]
         ELSE IF payoff = -1
              THEN [resultClass |-> "loss",
                    resultText |-> IF summary.dealer_bust
                                   THEN "Dealer Busts - Player Wins!"
                                   ELSE "Dealer Wins!"]
              ELSE [resultClass |-> "push", resultText |-> "Push (Tie)!"]

\* The if / else-if chain of displayResult: [resultClass, resultText].
ResultOf(payoff, summary) ==
    IF payoff = 1
    THEN [resultClass |-> "win", resultText |-> "Player Wins!"]
    ELSE IF payoff = -1
         THEN [resultClass |-> "loss",
               resultText |-> IF summary.player_bust
                              THEN "Player Busts - Dealer Wins!"
                              ELSE IF summary.dealer_bust
                                   THEN "Dealer Busts - Player Wins!"
                                   ELSE "Dealer Wins!"]
         ELSE [resultClass |-> "push", resultText |-> "Push (Tie)!"]

displayResult(d, payoff, summary) ==
    LET r == ResultOf(payoff, summary) IN
    [dom |-> [d EXCEPT !["result-box"] =
                [className |-> r.resultClass, text |-> r.resultText,
                 player |-> summary.player_total, dealer |-> summary.dealer_total]],
     thrown |-> FALSE]

\* One div.step-item per step: the actor, and the card symbol when step.card is truthy.
displayTrace(d, steps) ==
    [dom |-> [d EXCEPT !["steps-trace"] =
                [html |-> "Hand Trace",
                 items |-> [i \in 1..Len(steps.items) |->
                    [actor |-> steps.items[i].actor,
                     card |-> IF Truthy(steps.items[i].card)
                              THEN EmojiOr(steps.items[i].card, "JOKER") ELSE ""]]]],
     thrown |-> FALSE]

\* displayGameTable; displayResult; displayTrace, stopping at the first throw.
displayHand(d, data) ==
    LET t == displayGameTable(d, data.summary, data.steps) IN
    IF t.thrown THEN t
    ELSE LET r == displayResult(t.dom, data.payoff, data.summary)
             tr == displayTrace(r.dom, data.steps)
         IN  [dom |-> tr.dom, thrown |-> FALSE, cards |-> t.cards]

(***************************************************************************)
(* playHand: the synchronous part up to the fetch, and the part that runs  *)
(* when the fetch settles (try / catch / finally).                         *)
(***************************************************************************)

\* btn.disabled = true; loading.style.display = 'block'
playHandStart(d) ==
    [d EXCEPT !["play-btn"] = [disabled |-> TRUE], !["loading"] = [display |-> "block"]]

\* playHandTry with the table drawn before data.success is tested.
playHandTryEager(d, resp) ==
    IF resp.kind = "error"
    THEN [dom |-> d, thrown |-> FALSE, alert |-> "Failed to play hand"]
    ELSE IF resp.data.success
         THEN LET h == displayHand(d, resp.data) IN
              IF h.thrown
              THEN [dom |-> h.dom, thrown |-> TRUE, alert |-> "Failed to play hand"]
              ELSE [dom |-> [h.dom EXCEPT
                               !["welcome-message"] = [display |-> "none"],
                               !["game-content"] = [display |-> "block"]],
                    thrown |-> FALSE, alert |-> ""]
         ELSE [dom |-> [d EXCEPT !["player-cards"] = <<>>, !["dealer-cards"] = <<>>],
               thrown |-> FALSE, alert |-> "Error playing hand"]

\* The try and catch blocks of playHand once the fetch settled.
\* resp.kind = "error": fetch rejected or response.json() failed.
\* resp.kind = "json": the parsed body, resp.data.
playHandTry(d, resp) ==
    IF resp.kind = "error"
    THEN [dom |-> d, thrown |-> FALSE, alert |-> "Failed to play hand"]
    ELSE IF resp.data.success
         THEN LET h == displayHand(d, resp.data) IN
              IF h.thrown
              THEN [dom |-> h.dom, thrown |-> TRUE, alert |-> "Failed to play hand"]
              ELSE [dom |-> [h.dom EXCEPT
                               !["welcome-message"] = [display |-> "none"],
                               !["game-content"] = [display |-> "block"]],
                    thrown |-> FALSE, alert |-> ""]
         ELSE [dom |-> d, thrown |-> FALSE, alert |-> "Error playing hand"]

\* playHandSettled with the button enabled again at the end of the try block
\* instead of in a finally block.
playHandSettledNoFinally(d, resp) ==
    LET body == playHandTry(d, resp) IN
    [dom |-> IF body.alert = ""
             THEN [body.dom EXCEPT !["play-btn"] = [disabled |-> FALSE],
                                   !["loading"] = [display |-> "none"]]
             ELSE body.dom,
     thrown |-> body.thrown, alert |-> body.alert]

\* The part of playHand after the await: try, catch, then the finally block.
playHandSettled(d, resp) ==
    LET body == playHandTry(d, resp) IN
    [dom |-> [body.dom EXCEPT !["play-btn"] = [disabled |-> FALSE],
                              !["loading"] = [display |-> "none"]],
     thrown |-> body.thrown, alert |-> body.alert]

(***************************************************************************)
(* The tournament pane: parseInt, displayTournamentResults, runTournament. *)
(***************************************************************************)

Digits == <<"0", "1", "2", "3", "4", "5", "6", "7", "8", "9">>
IsDigit(c) == \E i \in DOMAIN Digits : Digits[i] = c
DigitValue(c) == (CHOOSE i \in DOMAIN Digits : Digits[i] = c) - 1

\* The text without its leading white space.
RECURSIVE StripLeft(_)
StripLeft(s) == IF s # <<>> /\ Head(s) = " " THEN StripLeft(Tail(s)) ELSE s

\* The value of the longest prefix of decimal digits of s after the digits seen
\* so far (acc, n of them): [n |-> digits read, v |-> their value].
RECURSIVE ReadDigits(_, _, _)
ReadDigits(s, n, acc) ==
    IF s # <<>> /\ IsDigit(Head(s))
    THEN ReadDigits(Tail(s), n + 1, acc * 10 + DigitValue(Head(s)))
    ELSE [n |-> n, v |-> acc]

\* parseInt(text) with no radix, on texts without a 0x prefix: white space is
\* skipped, one sign is read, then the longest run of decimal digits; what follows
\* is ignored, and no digit at all gives NaN.
parseInt(text) ==
    LET s == StripLeft(text)
        signed == s # <<>> /\ Head(s) \in {"-", "+"}
        sign == IF s # <<>> /\ Head(s) = "-" THEN -1 ELSE 1
        r == ReadDigits(IF signed THEN Tail(s) ELSE s, 0, 0)
    IN  IF r.n = 0 THEN NaN ELSE Num(sign * r.v)

\* parseInt(value) || 1000
numHandsOf(value) ==
    LET n == parseInt(value) IN IF Truthy(n) THEN n.v ELSE 1000

\* (wins / hands * 100).toFixed(1): the tenths nearest to the quotient, the larger
\* one on a tie; 0 / 0 is NaN and n / 0 is Infinity, which toFixed prints as such.
winRate(wins, hands) ==
    IF hands = 0
    THEN IF wins = 0 THEN [text |-> "NaN"] ELSE [text |-> "Infinity"]
    ELSE [text |-> "fixed", tenths |-> (2000 * wins + hands) \div (2 * hands)]

\* The forEach over ['A', 'B'] builds html; grid.innerHTML is assigned after it,
\* so a throw inside the loop leaves the grid as it was.
displayTournamentResults(d, results) ==
    LET Throws(agent) ==
            \/ results.t # "object"
            \/ results[agent].t # "object"
            \/ results[agent].avg_return.t # "number"
        Card(agent) ==
            LET stats == results[agent] IN
            [agent |-> stats.agent, hands |-> stats.hands, wins |-> stats.wins,
             winRate |-> winRate(stats.wins, stats.hands),
             avg_return |-> stats.avg_return.v]
    IN  IF Throws("A") \/ Throws("B")
        THEN [dom |-> d, thrown |-> TRUE]
        ELSE [dom |-> [d EXCEPT !["results-grid"] = <<Card("A"), Card("B")>>],
              thrown |-> FALSE]

\* The request body JSON.stringify builds, read from the hands input.
tournamentBody(d) == [num_hands |-> numHandsOf(d["hands-input"].value), seed |-> null]

\* btn.disabled = true; loading.style.display = 'block'
runTournamentStart(d) ==
    [d EXCEPT !["run-tournament-btn"] = [disabled |-> TRUE],
              !["tournament-loading"] = [display |-> "block"]]

runTournamentSettled(d, resp) ==
    LET body ==
          IF resp.kind = "error"
          THEN [dom |-> d, thrown |-> FALSE, alert |-> "Failed to run tournament"]
          ELSE IF resp.data.success
               THEN LET r == displayTournamentResults(d, resp.data.results) IN
                    IF r.thrown
                    THEN [dom |-> r.dom, thrown |-> TRUE, alert |-> "Failed to run tournament"]
                    ELSE [dom |-> [r.dom EXCEPT
                                     !["tournament-welcome"] = [display |-> "none"],
                                     !["tournament-results"] = [display |-> "block"]],
                          thrown |-> FALSE, alert |-> ""]
               ELSE [dom |-> d, thrown |-> FALSE, alert |-> "Error running tournament"]
    IN  \* finally
        [dom |-> [body.dom EXCEPT !["run-tournament-btn"] = [disabled |-> FALSE],
                                  !["tournament-loading"] = [display |-> "none"]],
         thrown |-> body.thrown, alert |-> body.alert]

(***************************************************************************)
(* The agent selector and the tabs.                                        *)
(***************************************************************************)

\* The try block of loadAgents once the fetch settled: the selector is emptied,
\* then one card per agent is appended, marked selected when its id is 'EV'.
\* A rejected fetch changes nothing; agents missing from the body throws in the
\* forEach, after the selector was emptied, and the catch only logs.
loadAgentsSettled(d, resp) ==
    IF resp.kind = "error" THEN d
    ELSE IF resp.data.agents.t # "array"
         THEN [d EXCEPT !["agent-selector"] = <<>>]
         ELSE [d EXCEPT !["agent-selector"] =
                 [i \in 1..Len(resp.data.agents.items) |->
                    [id |-> resp.data.agents.items[i].id,
                     selected |-> resp.data.agents.items[i].id = "EV"]]]

\* The forEach of selectAgent: classList.toggle('selected', force) on each card,
\* with index the card's position counted from 0.
selectAgent(d, agentId) ==
    [d EXCEPT !["agent-selector"] =
        [i \in 1..Len(@) |->
            [@[i] EXCEPT !.selected =
                \/ (i - 1 = 0 /\ agentId = "EV")
                \/ (i - 1 = 1 /\ agentId = "NAIVE")]]]

\* The tabs of the page: each .tab-btn carries data-tab = t, and the panel of
\* tab t has the id t-tab.
Tabs == 1..NumTabs
TabPanels == Tabs

\* showTab without the removal of 'active' from the buttons.
showTabKeepsButtons(d, tabName, target) ==
    [d EXCEPT !["tab-content"] = IF tabName \in TabPanels THEN {tabName} ELSE {},
              !["tab-btn"] = @ \cup {target}]

\* showTab(tabName) during a click on target (event.target): 'active' is removed
\* from every panel and every button, added to the panel found by id, and added
\* to the clicked button.  dom["tab-content"] and dom["tab-btn"] are the sets of
\* tabs whose panel, and whose button, carry 'active'.
showTab(d, tabName, target) ==
    [d EXCEPT !["tab-content"] = IF tabName \in TabPanels THEN {tabName} ELSE {},
              !["tab-btn"] = {target}]

(***************************************************************************)
(* The page after DOMContentLoaded: the markup as delivered, the listeners *)
(* installed and the request of loadAgents in flight.                      *)
(***************************************************************************)
Endpoints == {"/api/agents", "/api/play-hand", "/api/match"}

InitialDom ==
    [id \in {"play-btn", "run-tournament-btn"} |-> [disabled |-> FALSE]]
    @@ [id \in {"loading", "game-content", "tournament-loading", "tournament-results"}
          |-> [display |-> "none"]]
    @@ [id \in {"welcome-message", "tournament-welcome"} |-> [display |-> "block"]]
    @@ [id \in {"player-cards", "dealer-cards", "agent-selector", "results-grid"} |-> <<>>]
    @@ [id \in {"player-total", "dealer-total", "action-indicator", "agent-info"}
          |-> [html |-> ""]]
    @@ ("result-box" :> [className |-> "", text |-> ""])
    @@ ("steps-trace" :> [html |-> "", items |-> <<>>])
    @@ ("hands-input" :> [value |-> <<>>])
    @@ ("tab-content" :> {1})
    @@ ("tab-btn" :> {1})

Init ==
    /\ dom = InitialDom
    /\ selectedAgent = "EV"
    /\ pending = [e \in Endpoints |-> IF e = "/api/agents" THEN <<[method |-> "GET"]>> ELSE <<>>]
    /\ playerCards = <<>>
    /\ dealerCards = <<>>
    /\ last = [op |-> "DOMContentLoaded", resp |-> "", thrown |-> FALSE, alert |-> ""]

\* s without its i-th element.
RemoveAt(s, i) == [j \in 1..(Len(s) - 1) |-> IF j < i THEN s[j] ELSE s[j + 1]]

\* What a response is, for the record of the last step.
RespClass(resp) ==
    IF resp.kind = "error" THEN "transport"
    ELSE IF resp.data.success THEN "success" ELSE "service"

(***************************************************************************)
(* The inputs the model draws from.                                        *)
(***************************************************************************)
Step(actor, card) == [actor |-> actor, card |-> card]

StepKinds ==
    { Step("PLAYER", Num(10)), Step("PLAYER", undefined), Step("PLAYER", null),
      Step("DEALER", Num(6)), Step("DEALER", null), Step("DEALER", undefined),
      Step("SYSTEM", Num(11)),
      Step("SPECTATOR", Num(7)) }

StepLists(n) == UNION { [1..k -> StepKinds] : k \in 0..n }

Summary(pt, dt, up) ==
    [t |-> "object", agent |-> "EV", dealer_upcard |-> up,
     player_total |-> pt, dealer_total |-> dt,
     player_bust |-> pt > 21, dealer_bust |-> dt > 21]

Summaries == { Summary(pt, dt, up) : pt \in {17, 22}, dt \in {16, 23}, up \in {Num(6), Num(11)} }

TransportError == [kind |-> "error"]
ServiceError == [kind |-> "json", data |-> [success |-> FALSE, error |-> "error"]]
HandJson(summary, payoff, steps) ==
    [kind |-> "json",
     data |-> [success |-> TRUE, summary |-> summary, payoff |-> payoff, steps |-> steps]]

SomeSteps == Arr(<<Step("PLAYER", Num(10)), Step("DEALER", Num(6))>>)

\* Every payoff and summary with one trace, and every trace with one summary.
HandResponses ==
    {TransportError, ServiceError}
    \cup { HandJson(s, p, SomeSteps) : s \in Summaries \cup {undefined}, p \in {-1, 0, 1} }
    \cup { HandJson(Summary(17, 16, Num(6)), 1, st) :
              st \in { Arr(l) : l \in StepLists(MaxTraceLen) } \cup {undefined} }

FewHandResponses ==
    {TransportError, ServiceError,
     HandJson(Summary(17, 16, Num(6)), 1, SomeSteps),
     HandJson(Summary(17, 16, Num(6)), 1, undefined)}

Stats(name, hands, wins, avg) ==
    [t |-> "object", agent |-> name, hands |-> hands, wins |-> wins, avg_return |-> avg]

\* The statistics of one slot: wins <= hands, a slot without avg_return, no slot.
StatsOf(name) ==
    UNION { { Stats(name, h, w, Num(150)) : w \in 0..h } : h \in 0..MaxHands }
    \cup {Stats(name, 1, 1, undefined), undefined}

TournamentJson(results) == [kind |-> "json", data |-> [success |-> TRUE, results |-> results]]

TournamentResponses ==
    {TransportError, ServiceError, TournamentJson(undefined)}
    \cup { TournamentJson([t |-> "object", A |-> a, B |-> b]) :
              a \in StatsOf("EV"), b \in StatsOf("NAIVE") }

FewTournamentResponses ==
    {TransportError, ServiceError, TournamentJson(undefined),
     TournamentJson([t |-> "object", A |-> Stats("EV", 1, 1, Num(150)),
                                     B |-> Stats("NAIVE", 1, 0, Num(150))])}

\* The texts typed in the hands input.
Alphabet == {"-", "0", "7", "a", " "}
Texts == UNION { [1..k -> Alphabet] : k \in 0..MaxInputLen }

AgentIds == {"EV", "NAIVE", "BASIC", "RANDOM"}

\* The catalogs: agents with distinct ids, in any order.
Catalogs ==
    { c \in UNION { [1..k -> AgentIds] : k \in 0..MaxAgents } :
        \A i, j \in DOMAIN c : i # j => c[i] # c[j] }

AgentsResponses ==
    {TransportError, [kind |-> "json", data |-> [agents |-> undefined]]}
    \cup { [kind |-> "json", data |-> [agents |-> Arr([i \in DOMAIN c |-> [id |-> c[i]]])]] :
              c \in Catalogs }

(***************************************************************************)
(* The steps of the event loop.                                            *)
(***************************************************************************)

\* A click on the play button; a disabled button dispatches no click.  The seed
\* input is left empty, so the body carries seed: null.
PlayHand ==
    /\ ~dom["play-btn"].disabled
    /\ Len(pending["/api/play-hand"]) < MaxPending
    /\ dom' = playHandStart(dom)
    /\ pending' = [pending EXCEPT !["/api/play-hand"] =
                      Append(@, [agent_id |-> selectedAgent, seed |-> null])]
    /\ last' = [op |-> "playHand", resp |-> "", thrown |-> FALSE, alert |-> ""]
    /\ UNCHANGED <<selectedAgent, playerCards, dealerCards>>

\* The fetch of a playHand call settles with a response of R.
PlayHandSettles(R) ==
    \E i \in DOMAIN pending["/api/play-hand"], resp \in R :
        LET r == playHandSettled(dom, resp)
            ran == resp.kind = "json" /\ resp.data.success
            table == displayGameTable(dom, resp.data.summary, resp.data.steps)
        IN  /\ dom' = r.dom
            /\ pending' = [pending EXCEPT !["/api/play-hand"] = RemoveAt(@, i)]
            /\ playerCards' = IF ran THEN table.cards.playerCards ELSE playerCards
            /\ dealerCards' = IF ran THEN table.cards.dealerCards ELSE dealerCards
            /\ last' = [op |-> "playHandSettled", resp |-> RespClass(resp),
                        thrown |-> r.thrown, alert |-> r.alert, response |-> resp]
            /\ UNCHANGED selectedAgent

\* The user types a text in the hands input.
TypeHands ==
    \E text \in Texts :
        /\ dom["hands-input"].value # text
        /\ dom' = [dom EXCEPT !["hands-input"] = [value |-> text]]
        /\ last' = [op |-> "input", resp |-> "", thrown |-> FALSE, alert |-> ""]
        /\ UNCHANGED <<selectedAgent, pending, playerCards, dealerCards>>

\* A click on the run-tournament button.
RunTournament ==
    /\ ~dom["run-tournament-btn"].disabled
    /\ Len(pending["/api/match"]) < MaxPending
    /\ dom' = runTournamentStart(dom)
    /\ pending' = [pending EXCEPT !["/api/match"] = Append(@, tournamentBody(dom))]
    /\ last' = [op |-> "runTournament", resp |-> "", thrown |-> FALSE, alert |-> ""]
    /\ UNCHANGED <<selectedAgent, playerCards, dealerCards>>

RunTournamentSettles(R) ==
    \E i \in DOMAIN pending["/api/match"], resp \in R :
        LET r == runTournamentSettled(dom, resp) IN
            /\ dom' = r.dom
            /\ pending' = [pending EXCEPT !["/api/match"] = RemoveAt(@, i)]
            /\ last' = [op |-> "runTournamentSettled", resp |-> RespClass(resp),
                        thrown |-> r.thrown, alert |-> r.alert]
            /\ UNCHANGED <<selectedAgent, playerCards, dealerCards>>

\* The fetch of loadAgents settles.
LoadAgentsSettles ==
    \E resp \in AgentsResponses :
        /\ pending["/api/agents"] # <<>>
        /\ dom' = loadAgentsSettled(dom, resp)
        /\ pending' = [pending EXCEPT !["/api/agents"] = Tail(@)]
        /\ last' = [op |-> "loadAgentsSettled", resp |-> resp.kind,
                    thrown |-> FALSE, alert |-> ""]
        /\ UNCHANGED <<selectedAgent, playerCards, dealerCards>>

\* A click on the i-th agent card: its onclick calls selectAgent with its agent's id.
SelectAgent ==
    \E i \in DOMAIN dom["agent-selector"] :
        /\ dom' = selectAgent(dom, dom["agent-selector"][i].id)
        /\ selectedAgent' = dom["agent-selector"][i].id
        /\ last' = [op |-> "selectAgent", resp |-> "", thrown |-> FALSE, alert |-> ""]
        /\ UNCHANGED <<pending, playerCards, dealerCards>>

\* A click on the button of tab t: the listener reads data-tab from e.target and
\* calls showTab, which reads the same event's target.
ClickTab ==
    \E t \in Tabs :
        /\ dom' = showTab(dom, t, t)
        /\ last' = [op |-> "showTab", resp |-> "", thrown |-> FALSE, alert |-> "", tab |-> t]
        /\ UNCHANGED <<selectedAgent, pending, playerCards, dealerCards>>

HandNext == PlayHand \/ PlayHandSettles(HandResponses)
SpecHand == Init /\ [][HandNext]_vars

TournamentNext == RunTournament \/ RunTournamentSettles(TournamentResponses)
SpecTournament == Init /\ [][TournamentNext]_vars

ControlsNext ==
    \/ PlayHand
    \/ PlayHandSettles(FewHandResponses)
    \/ TypeHands
    \/ RunTournament
    \/ RunTournamentSettles(FewTournamentResponses)
SpecControls == Init /\ [][ControlsNext]_vars

NavNext == LoadAgentsSettles \/ SelectAgent \/ ClickTab
SpecNav == Init /\ [][NavNext]_vars

Next == ControlsNext \/ NavNext
Spec == Init /\ [][Next]_vars

(***************************************************************************)
(* The claims.                                                             *)
(***************************************************************************)

\* The last step was a play-hand response with success: true.
HandSucceeded == last.op = "playHandSettled" /\ last.resp = "success"
HandRendered == HandSucceeded /\ ~last.thrown

\* The cards of the steps of the given actors that carry a card, in order.
CardsOf(items, actors) ==
    LET sel == SelectSeq(items, LAMBDA st : st.actor \in actors /\ st.card \notin {null, undefined})
    IN  [i \in 1..Len(sel) |-> sel[i].card]

\* C1: after displayGameTable ran on a step sequence, its player cards are exactly
\* the cards of the PLAYER steps with a present (non-null, non-absent) card, in
\* order, and its dealer cards exactly those of the DEALER and SYSTEM steps.
C1_Reconstruction ==
    (HandSucceeded /\ last.response.data.steps.t = "array") =>
        /\ playerCards = CardsOf(last.response.data.steps.items, {"PLAYER"})
        /\ dealerCards = CardsOf(last.response.data.steps.items, {"DEALER", "SYSTEM"})

\* The category a rendered result box shows.
Category(box) ==
    IF box.className = "win" THEN "WIN"
    ELSE IF box.className = "push" THEN "PUSH"
    ELSE IF box.className = "loss"
         THEN IF box.text = "Player Busts - Dealer Wins!" THEN "LOSS_BUST" ELSE "LOSS_DEALER"
         ELSE "NONE"

\* The precedence rules of the outcome classification.
ExpectedCategory(payoff, player_bust) ==
    CASE payoff = 1 -> "WIN"
      [] payoff = -1 /\ player_bust -> "LOSS_BUST"
      [] payoff = -1 /\ ~player_bust -> "LOSS_DEALER"
      [] payoff = 0 -> "PUSH"

\* C2: for every payoff in {-1, 0, 1} and both bust flags, the result box shows
\* the category the precedence rules give: WIN for 1 whatever the flags, LOSS_BUST
\* for -1 with player_bust, LOSS_DEALER for -1 without it whatever dealer_bust is,
\* PUSH for 0.
C2_Classification ==
    HandRendered =>
        Category(dom["result-box"]) =
            ExpectedCategory(last.response.data.payoff, last.response.data.summary.player_bust)

\* C2's case: a loss without player_bust and with dealer_bust has been rendered.
C2_Witness ==
    /\ HandRendered
    /\ last.response.data.payoff = -1
    /\ ~last.response.data.summary.player_bust
    /\ last.response.data.summary.dealer_bust

\* C3: two renderings of the same category show the same message and the same
\* class: when a hand replaces a result box by one of the same category, neither
\* the text nor the class changes.
C3_OneMessagePerCategory ==
    [][ (Category(dom["result-box"]) # "NONE"
            /\ Category(dom["result-box"]) = Category(dom'["result-box"]))
        => (dom'["result-box"].text = dom["result-box"].text
            /\ dom'["result-box"].className = dom["result-box"].className) ]_vars

\* C4: for each of the two controls at most one request is in flight, and the
\* control is disabled exactly while its request is in flight: disabled from the
\* click on, enabled again after every kind of completion.
C4_SingleInFlight ==
    /\ Len(pending["/api/play-hand"]) <= 1
    /\ dom["play-btn"].disabled <=> (Len(pending["/api/play-hand"]) = 1)
    /\ Len(pending["/api/match"]) <= 1
    /\ dom["run-tournament-btn"].disabled <=> (Len(pending["/api/match"]) = 1)

\* C4's case: a play-hand response has just failed while being rendered and the
\* play button is enabled again, while a tournament request is still in flight.
C4_Witness ==
    /\ last.op = "playHandSettled" /\ last.thrown
    /\ ~dom["play-btn"].disabled
    /\ Len(pending["/api/match"]) = 1 /\ dom["run-tournament-btn"].disabled

\* What the hand pane shows: cards, totals, result, trace, welcome and content.
HandView ==
    [id \in {"player-cards", "dealer-cards", "player-total", "dealer-total",
             "result-box", "steps-trace", "welcome-message", "game-content"} |-> dom[id]]

\* C5: a playHand call that fails by a transport error or a success: false
\* response leaves what the hand pane shows as it was.
C5_FailureKeepsRender ==
    [][ (last'.op = "playHandSettled" /\ last'.resp \in {"transport", "service"})
        => HandView' = HandView ]_vars

\* C5's case: a call has just failed after an earlier hand was rendered.
C5_Witness ==
    /\ last.op = "playHandSettled" /\ last.resp \in {"transport", "service"}
    /\ dom["game-content"].display = "block"
    /\ dom["player-cards"] # <<>>

\* C6: once the catalog holds the selected agent, exactly one agent card is marked
\* selected, and it is the card of the agent whose id is the selected agent id.
C6_OneSelected ==
    LET cards == dom["agent-selector"] IN
    (\E i \in DOMAIN cards : cards[i].id = selectedAgent) =>
        /\ Cardinality({i \in DOMAIN cards : cards[i].selected}) = 1
        /\ \A i \in DOMAIN cards : cards[i].selected <=> cards[i].id = selectedAgent

\* C7: exactly one tab panel and exactly one tab button are active, they belong to
\* the same tab, and after a switch that tab is the one switched to (so a switch
\* to the active tab changes nothing).
C7_SingleActiveTab ==
    /\ Cardinality(dom["tab-content"]) = 1
    /\ dom["tab-btn"] = dom["tab-content"]
    /\ last.op = "showTab" => dom["tab-btn"] = {last.tab}

\* C7's case: the tab was switched away from the one active at load.
C7_Witness == last.op = "showTab" /\ last.tab # 1 /\ dom["tab-content"] = {last.tab}

\* C8: every rendered win rate is a number with one decimal, wins / hands * 100
\* when hands > 0 and a defined fallback when hands = 0, never NaN.
C8_WinRate ==
    \A i \in DOMAIN dom["results-grid"] :
        LET card == dom["results-grid"][i] IN
        /\ card.winRate.text = "fixed"
        /\ card.hands > 0 =>
             \A n \in 0..1000 :
                (2 * card.hands * n <= 2000 * card.wins + card.hands
                  /\ 2000 * card.wins + card.hands < 2 * card.hands * (n + 1))
                => card.winRate.tenths = n

\* A text that is an integer literal: an optional minus, then digits only.
IsInteger(text) ==
    LET ds == IF text # <<>> /\ Head(text) = "-" THEN Tail(text) ELSE text IN
    ds # <<>> /\ \A i \in DOMAIN ds : IsDigit(ds[i])

\* The value of a sequence of digits.
RECURSIVE DecimalValue(_)
DecimalValue(ds) ==
    IF ds = <<>> THEN 0
    ELSE 10 * DecimalValue(SubSeq(ds, 1, Len(ds) - 1)) + DigitValue(ds[Len(ds)])

IntegerOf(text) ==
    IF Head(text) = "-" THEN 0 - DecimalValue(Tail(text)) ELSE DecimalValue(text)

\* C9: the request of runTournament carries num_hands = 1000 when the hands input
\* is empty or holds no digit, and carries the input's own value when the input is
\* an integer, zero and negative values included.
C9_NumHands ==
    last.op = "runTournament" =>
        LET text == dom["hands-input"].value
            body == pending["/api/match"][Len(pending["/api/match"])]
        IN  /\ (\A i \in DOMAIN text : ~IsDigit(text[i])) => body.num_hands = 1000
            /\ IsInteger(text) => body.num_hands = IntegerOf(text)

\* C10: a response with success: true never makes the rendering throw, and raises
\* no failure notification, whatever fields it lacks.
C10_NoThrowOnMalformed == HandSucceeded => (~last.thrown /\ last.alert = "")

====
